---- MODULE Spec2Model ----
(***************************************************************************)
(* greentornado: eventlet timers and hub driven by Tornado's IOLoop.       *)
(*                                                                         *)
(* The model follows src/greentornado.py.  Greenlets are the tasks 0..     *)
(* MaxTask; task 0 is the root greenlet of the thread.  The IOLoop keeps a *)
(* set of one-shot timeouts; running one removes it and calls the timer    *)
(* object that was registered (add_timeout(deadline, self)).  Wall-clock   *)
(* time is abstracted: the loop may run any registered timeout, which      *)
(* over-approximates every order of expiry.                                *)
(*                                                                         *)
(* Python's None is modelled by the empty set: an attribute that holds an  *)
(* object or None is a set with at most one element.  A deleted attribute  *)
(* (del self.tpl) is the empty set as well.                                *)
(*                                                                         *)
(* The timers, the file descriptor handlers of the loop and greenify share *)
(* no state, so each has its own next-state relation: Spec (timers, hub    *)
(* and greenlets), WatchSpec (TornadoHub.add and remove) and GreenifySpec.  *)
(***************************************************************************)
EXTENDS Integers, Sequences, FiniteSets

\* ---------------------------------------------------------------- bounds
MaxTask == 2
MaxTimers == 1
MaxHandles == 2
MaxObjs == 6
MaxSpawned == 2
MaxRan == 1

Tasks == 0..MaxTask

\* ---------------------------------------------------------------- inputs
\* Delays handed to the constructors: numbers, or an object that is no number
\* ('0.2 seconds' in the tests).
Seconds == { [num |-> TRUE, val |-> -1], [num |-> TRUE, val |-> 0],
             [num |-> FALSE, val |-> 0] }
\* User payloads: record is a function, 'function' is a str (tests, line 44).
UserFuncs == { "record", "function" }
ArgValues == { 1, 42 }
Classes == { "Timer", "LocalTimer" }
\* File descriptors, events (TornadoHub.READ, TornadoHub.WRITE) and callbacks
\* handed to TornadoHub.add.
Fds == { 3, 4 }
Events == { "READ", "WRITE" }
WatchCallbacks == { "cb1", "cb2" }

VARIABLES
    dead,        \* greenlet.dead of every task
    parent,      \* greenlet.parent of every task ({} for the root)
    current,     \* eventlet.getcurrent()
    hubGreenlet, \* TornadoHub.greenlet
    timers,      \* the timer objects constructed so far
    timeouts,    \* IOLoop: the registered timeouts, [handle, timer]
    nextHandle,  \* IOLoop: the next handle add_timeout returns
    calls,       \* per timer: the invocations of the user function
    loopErrs,    \* exceptions raised inside callbacks the loop ran
    err,         \* what the last call raised to its caller: [exc, line]
    hist,        \* per timer: how it was made and what happened to it
    handlers,    \* IOLoop: per file descriptor the registered handler
    ret,         \* what the last call of add, remove or greenify returned
    objs,        \* the functions and handler classes that exist
    spawned,     \* eventlet.spawn_n: the tasks waiting to be run
    ran          \* the bodies of user functions run so far

vars == << dead, parent, current, hubGreenlet, timers, timeouts, nextHandle,
           calls, loopErrs, err, hist, handlers, ret, objs, spawned, ran >>

taskVars == << dead, parent, current, hubGreenlet >>

\* The timers and the loop's timeouts.
timerVars == << timers, timeouts, nextHandle, calls, loopErrs, hist >>

\* The loop's file descriptor handlers.
watchVars == << handlers, ret >>

\* The callables greenify works on and the tasks they spawn.
greenifyVars == << objs, spawned, ran >>

TimerIds == 1..Len(timers)

\* ------------------------------------------------------------- callables
\* A payload function: a user object, or schedule_call_local's closure
\* call_if_greenlet_alive around one.
Func(wrapped, inner) == [wrapped |-> wrapped, inner |-> inner]

\* callable(func): a closure is callable whatever it wraps.
Callable(f) == f.wrapped \/ f.inner = "record"

\* bool(greenlet): true while the greenlet is active, false once it is dead.
\* Every greenlet a timer holds came from getcurrent(), so it has started.
GreenletBool(g) == ~dead[g]

\* `x and not x.dead` for x a greenlet or None, as a truth value.
AliveTruth(gs) == \E g \in gs : GreenletBool(g) /\ ~dead[g]

\* `x and x.dead` for x a greenlet or None, as a truth value: `and` returns x
\* itself when x is falsy, and x.dead otherwise.
DeadTruth(gs) == \E g \in gs : GreenletBool(g) /\ dead[g]

\* The ancestors of greenlet g along greenlet.parent, g itself included.
RECURSIVE Ancestors(_)
Ancestors(g) ==
    IF parent[g] = {} THEN {g}
    ELSE {g} \cup Ancestors(CHOOSE p \in parent[g] : TRUE)

\* Where control goes when greenlet g finishes: its nearest live ancestor.
RECURSIVE LiveParent(_)
LiveParent(g) ==
    LET p == CHOOSE q \in parent[g] : TRUE
    IN  IF dead[p] THEN LiveParent(p) ELSE p

\* ------------------------------------------------------------ timer state
\* timer.Timer.__init__ (seconds, tpl, called) followed by the fields that
\* LocalTimer.__init__ and schedule() set.
NewTimer(cls, seconds, func, args, handle) ==
    [ cls            |-> cls,
      seconds        |-> seconds.val,
      tpl            |-> { [func |-> func, args |-> args] },
      called         |-> FALSE,
      scheduled_time |-> handle,
      greenlet       |-> IF cls = "LocalTimer" THEN {current} ELSE {} ]

NewHist(via, func, args) ==
    [ via |-> via, creator |-> current, func |-> func, args |-> args,
      nfire |-> 0, ncancel |-> 0, nsched |-> 1, nraise |-> 0 ]

Min(a, b) == IF a < b THEN a ELSE b

\* An exception and the source line that raises it; NoError: the call returned.
Raised(exc, line) == [exc |-> exc, line |-> line]
NoError == Raised("none", 0)

\* Faulty variant of Pending: the test of called is missing.
PendingIgnoresCalled(T) == AliveTruth(T.greenlet)

\* LocalTimer.pending as a truth value:
\* not self.called and self.greenlet and not self.greenlet.dead
Pending(T) == ~T.called /\ AliveTruth(T.greenlet)

\* The timeouts the loop holds for timer t.
Registered(t) == { to \in timeouts : to.timer = t }

\* --------------------------------------------------------------- objects
\* A function or a handler class as greenify sees it: __name__, __module__,
\* __doc__, the attributes original and __wrapped__ of its __dict__, for the
\* closures wrapper and _execute_wrapper the callable they close over
\* (target), and for a handler class its _execute.  Objects are named by their
\* index in objs.
Obj(kind, name, module, doc, target, execute) ==
    [ kind |-> kind, name |-> name, module |-> module, doc |-> doc,
      original |-> {}, wrapped |-> {}, target |-> target, execute |-> execute ]

\* What exists before greenify is used: two plain functions (the second has
\* no doc string), RequestHandler._execute and a RequestHandler subclass.
UserObjs ==
    << Obj("function", "job", "app", {"Do something with eventlet"}, {}, {}),
       Obj("function", "work", "app", {}, {}, {}),
       Obj("function", "_execute", "tornado.web", {}, {}, {}),
       Obj("handler", "MainHandler", "app", {}, {}, {3}) >>

ObjIds == 1..Len(objs)

\* ------------------------------------------------------------------ Init
Init ==
    /\ handlers = [fd \in Fds |-> {}]
    /\ ret = {}
    /\ objs = UserObjs
    /\ spawned = << >>
    /\ ran = << >>
    /\ dead = [g \in Tasks |-> FALSE]
    /\ parent = [g \in Tasks |-> IF g = 0 THEN {} ELSE {0}]
    /\ hubGreenlet \in {0, 1}
    /\ current = hubGreenlet
    /\ timers = << >>
    /\ timeouts = {}
    /\ nextHandle = 1
    /\ calls = << >>
    /\ loopErrs = {}
    /\ err = NoError
    /\ hist = << >>

\* ----------------------------------------------------------- construction
\* The part of the state a constructor call works on, and the exception the
\* call raises (NoError: it returns the new timer).
CtorState ==
    [ timers |-> timers, timeouts |-> timeouts, nextHandle |-> nextHandle,
      calls |-> calls, hist |-> hist, err |-> NoError ]

\* cls(seconds, func, *args): Timer.__init__ / LocalTimer.__init__, then
\* schedule().  time.time() + seconds raises TypeError for a seconds that is
\* no number, before add_timeout is reached; nothing else is checked.
ConstructOp(S, via, cls, seconds, func, args) ==
    IF ~seconds.num
    THEN [S EXCEPT !.err = Raised("TypeError", 37)]
    ELSE [S EXCEPT
            !.timers = Append(@, NewTimer(cls, seconds, func, args, S.nextHandle)),
            !.timeouts = @ \cup { [handle |-> S.nextHandle,
                                   timer  |-> Len(S.timers) + 1] },
            !.nextHandle = @ + 1,
            !.calls = Append(@, << >>),
            !.hist = Append(@, NewHist(via, func, args)) ]

\* The state after a constructor call; the bounds of the model stop further
\* timers and handles.
Apply(R) ==
    /\ Len(R.timers) <= MaxTimers
    /\ R.nextHandle <= MaxHandles + 1
    /\ timers' = R.timers
    /\ timeouts' = R.timeouts
    /\ nextHandle' = R.nextHandle
    /\ calls' = R.calls
    /\ hist' = R.hist
    /\ err' = R.err

\* Timer(seconds, func, *args) or LocalTimer(seconds, func, *args), called
\* directly by the running greenlet.
TimerInit(cls, seconds, f, args) ==
    /\ Apply(ConstructOp(CtorState, "ctor", cls, seconds, Func(FALSE, f), args))
    /\ UNCHANGED << taskVars, loopErrs,
                    watchVars, greenifyVars >>

\* Faulty variant of CallLaterOp: cls(...) is constructed first and the checks of
\* func and seconds come after it.
CallLaterConstructsFirst(S, via, cls, seconds, func, args) ==
    LET R == ConstructOp(S, via, cls, seconds, func, args)
    IN  IF R.err # NoError THEN R
        ELSE IF ~Callable(func) THEN [R EXCEPT !.err = Raised("TypeError", 74)]
        ELSE IF seconds.val < 0 THEN [R EXCEPT !.err = Raised("ValueError", 78)]
        ELSE R

\* call_later(cls, seconds, func, *args): three checks, then cls(...).
CallLaterOp(S, via, cls, seconds, func, args) ==
    IF ~Callable(func) THEN [S EXCEPT !.err = Raised("TypeError", 74)]
    ELSE IF ~seconds.num THEN [S EXCEPT !.err = Raised("TypeError", 76)]
    ELSE IF seconds.val < 0 THEN [S EXCEPT !.err = Raised("ValueError", 78)]
    ELSE ConstructOp(S, via, cls, seconds, func, args)

CallLater(cls, seconds, f, args) ==
    /\ Apply(CallLaterOp(CtorState, "call_later", cls, seconds,
                         Func(FALSE, f), args))
    /\ UNCHANGED << taskVars, loopErrs,
                    watchVars, greenifyVars >>

\* TornadoHub.schedule_call_local: func is wrapped in call_if_greenlet_alive
\* and the closure is what call_later validates and LocalTimer stores.
ScheduleCallLocal(seconds, f, args) ==
    /\ Apply(CallLaterOp(CtorState, "local", "LocalTimer", seconds,
                         Func(TRUE, f), args))
    /\ UNCHANGED << taskVars, loopErrs,
                    watchVars, greenifyVars >>

\* TornadoHub.schedule_call_global: call_later(Timer, seconds, func, ...).
ScheduleCallGlobal(seconds, f, args) ==
    /\ Apply(CallLaterOp(CtorState, "global", "Timer", seconds,
                         Func(FALSE, f), args))
    /\ UNCHANGED << taskVars, loopErrs,
                    watchVars, greenifyVars >>

\* ------------------------------------------------------- schedule, cancel
\* Timer.schedule(), called again on a constructed timer: called is reset and
\* a new timeout is registered; the handle of the earlier one is overwritten.
Schedule(t) ==
    /\ t \in TimerIds
    /\ nextHandle <= MaxHandles
    /\ timers' = [timers EXCEPT ![t].called = FALSE,
                                ![t].scheduled_time = nextHandle]
    /\ timeouts' = timeouts \cup { [handle |-> nextHandle, timer |-> t] }
    /\ nextHandle' = nextHandle + 1
    /\ hist' = [hist EXCEPT ![t].nsched = @ + 1]
    /\ err' = NoError
    /\ UNCHANGED << taskVars, calls, loopErrs,
                    watchVars, greenifyVars >>

\* The part of the state cancel() works on: the timer objects, the loop's
\* timeouts and the exception the call raises ("none": it returns).
CancelState == [timers |-> timers, timeouts |-> timeouts, err |-> NoError]

\* IOLoop.remove_timeout(handle): the timeout with that handle is dropped.
RemoveTimeout(tos, handle) == { to \in tos : to.handle # handle }

\* Faulty variant of TimerCancel: the payload is deleted outside the test of
\* called.
TimerCancelDropsPayloadAlways(S, t) ==
    IF ~S.timers[t].called
    THEN [ S EXCEPT !.timers[t].called = TRUE,
                    !.timeouts = RemoveTimeout(@, S.timers[t].scheduled_time),
                    !.timers[t].tpl = {} ]
    ELSE [ S EXCEPT !.timers[t].tpl = {} ]

\* Faulty variant of TimerCancel: no test of called and no hasattr before del.
TimerCancelUnguarded(S, t) ==
    IF S.timers[t].tpl = {}
    THEN [ S EXCEPT !.timers[t].called = TRUE,
                    !.timeouts = RemoveTimeout(@, S.timers[t].scheduled_time),
                    !.err = Raised("AttributeError", 46) ]
    ELSE [ S EXCEPT !.timers[t].called = TRUE,
                    !.timeouts = RemoveTimeout(@, S.timers[t].scheduled_time),
                    !.timers[t].tpl = {} ]

\* Timer.cancel().
TimerCancel(S, t) ==
    IF ~S.timers[t].called
    THEN [ S EXCEPT !.timers[t].called = TRUE,
                    !.timeouts = RemoveTimeout(@, S.timers[t].scheduled_time),
                    !.timers[t].tpl = {} ]
    ELSE S

\* LocalTimer.cancel(): the greenlet is dropped, then Timer.cancel().
LocalTimerCancel(S, t) ==
    TimerCancel([S EXCEPT !.timers[t].greenlet = {}], t)

\* t.cancel(), dispatched on the class of t.
CancelOp(S, t) ==
    IF S.err # NoError THEN S
    ELSE IF S.timers[t].cls = "LocalTimer" THEN LocalTimerCancel(S, t)
    ELSE TimerCancel(S, t)

Cancel(t) ==
    /\ t \in TimerIds
    /\ LET R == CancelOp(CancelState, t)
       IN  /\ timers' = R.timers
           /\ timeouts' = R.timeouts
           /\ err' = R.err
    /\ hist' = [hist EXCEPT ![t].ncancel = Min(@ + 1, 2)]
    /\ UNCHANGED << taskVars, nextHandle, calls, loopErrs,
                    watchVars, greenifyVars >>

\* ------------------------------------------------------------ the loop
\* Faulty variant of Invoke: call_if_greenlet_alive calls func without its test.
InvokeUnconditionally(T, p) ==
    IF p.func.inner = "record" THEN "called" ELSE "TypeError"

\* What calling the stored payload does: "called" (the user function ran),
\* "TypeError" (the user object is not callable) or "skipped"
\* (call_if_greenlet_alive found no live greenlet and returned).
Invoke(T, p) ==
    IF p.func.wrapped /\ ~AliveTruth(T.greenlet) THEN "skipped"
    ELSE IF p.func.inner = "record" THEN "called"
    ELSE "TypeError"

\* Faulty variant of TimerCall: the payload is kept after the call.
TimerCallKeepsPayload(T) ==
    IF T.called THEN [timer |-> T, out |-> "noop"]
    ELSE IF T.tpl = {}
    THEN [timer |-> [T EXCEPT !.called = TRUE], out |-> "AttributeError"]
    ELSE [timer |-> [T EXCEPT !.called = TRUE],
          out   |-> Invoke(T, CHOOSE p \in T.tpl : TRUE)]

\* timer.Timer.__call__, which Timer inherits: the payload is called once and
\* deleted afterwards, also when it raised.
TimerCall(T) ==
    IF T.called THEN [timer |-> T, out |-> "noop"]
    ELSE IF T.tpl = {}
    THEN [timer |-> [T EXCEPT !.called = TRUE], out |-> "AttributeError"]
    ELSE [timer |-> [T EXCEPT !.called = TRUE, !.tpl = {}],
          out   |-> Invoke(T, CHOOSE p \in T.tpl : TRUE)]

\* Faulty variant of LocalTimerCall: called is set after the callback has
\* returned, so it stays false when the callback raises.
LocalTimerCallMarksAfter(T) ==
    IF T.called THEN [timer |-> T, out |-> "noop"]
    ELSE IF DeadTruth(T.greenlet)
    THEN [timer |-> [T EXCEPT !.called = TRUE], out |-> "suppressed"]
    ELSE IF T.tpl = {}
    THEN [timer |-> T, out |-> "AttributeError"]
    ELSE LET out == Invoke(T, CHOOSE p \in T.tpl : TRUE)
         IN  [timer |-> [T EXCEPT !.called = (out # "TypeError")],
              out   |-> out]

\* LocalTimer.__call__.
LocalTimerCall(T) ==
    IF T.called THEN [timer |-> T, out |-> "noop"]
    ELSE IF DeadTruth(T.greenlet)
    THEN [timer |-> [T EXCEPT !.called = TRUE], out |-> "suppressed"]
    ELSE IF T.tpl = {}
    THEN [timer |-> [T EXCEPT !.called = TRUE], out |-> "AttributeError"]
    ELSE [timer |-> [T EXCEPT !.called = TRUE],
          out   |-> Invoke(T, CHOOSE p \in T.tpl : TRUE)]

\* timer(), dispatched on the class of the timer.
Call(T) == IF T.cls = "LocalTimer" THEN LocalTimerCall(T) ELSE TimerCall(T)

\* The IOLoop runs one registered timeout: it is dropped and the timer object
\* registered by add_timeout(deadline, self) is called.  The loop logs what
\* the callback raises.
LoopFire(to) ==
    /\ current = hubGreenlet
    /\ to \in timeouts
    /\ LET t == to.timer
           R == Call(timers[t])
       IN  /\ timers' = [timers EXCEPT ![t] = R.timer]
           /\ timeouts' = timeouts \ {to}
           /\ calls' = IF R.out = "called"
                       THEN [calls EXCEPT ![t] = Append(@,
                               [ args |-> (CHOOSE p \in timers[t].tpl : TRUE).args,
                                 creatorDead |-> dead[hist[t].creator] ])]
                       ELSE calls
           /\ loopErrs' = IF R.out \in {"TypeError", "AttributeError"}
                          THEN loopErrs \cup {R.out} ELSE loopErrs
           /\ hist' = [hist EXCEPT ![t].nfire = @ + 1,
                                    ![t].nraise = IF R.out = "TypeError"
                                                  THEN @ + 1 ELSE @]
           /\ err' = NoError
    /\ UNCHANGED << taskVars, nextHandle,
                    watchVars, greenifyVars >>

\* ------------------------------------------------------------ greenlets
\* Faulty variant of HubSwitch: the ValueError of the parent assignment is not
\* caught, so the caller keeps running with the exception.
HubSwitchPropagatesValueError ==
    IF current = hubGreenlet
    THEN /\ err' = Raised("RuntimeError", 100)
         /\ UNCHANGED << dead, parent, current, hubGreenlet, timers, timeouts,
                         nextHandle, calls, loopErrs, hist,
                    watchVars, greenifyVars >>
    ELSE IF current \in Ancestors(hubGreenlet)
    THEN /\ err' = Raised("ValueError", 104)
         /\ UNCHANGED << dead, parent, current, hubGreenlet, timers, timeouts,
                         nextHandle, calls, loopErrs, hist,
                    watchVars, greenifyVars >>
    ELSE /\ parent' = [parent EXCEPT ![current] = {hubGreenlet}]
         /\ current' = hubGreenlet
         /\ err' = NoError
         /\ UNCHANGED << dead, hubGreenlet, timers, timeouts, nextHandle,
                         calls, loopErrs, hist,
                    watchVars, greenifyVars >>

\* Faulty variant of HubSwitch: no test that the caller is the greenlet of the loop.
HubSwitchUnchecked ==
    /\ parent' = IF current \in Ancestors(hubGreenlet)
                 THEN parent
                 ELSE [parent EXCEPT ![current] = {hubGreenlet}]
    /\ current' = hubGreenlet
    /\ err' = NoError
    /\ UNCHANGED << dead, hubGreenlet, timers, timeouts, nextHandle, calls,
                    loopErrs, hist,
                    watchVars, greenifyVars >>

\* TornadoHub.switch().
HubSwitch ==
    IF current = hubGreenlet
    THEN /\ err' = Raised("RuntimeError", 100)
         /\ UNCHANGED << taskVars, timers, timeouts, nextHandle, calls,
                         loopErrs, hist,
                    watchVars, greenifyVars >>
    ELSE /\ parent' = IF current \in Ancestors(hubGreenlet)
                      THEN parent  \* ValueError: cyclic parent chain, swallowed
                      ELSE [parent EXCEPT ![current] = {hubGreenlet}]
         /\ current' = hubGreenlet
         /\ err' = NoError
         /\ UNCHANGED << dead, hubGreenlet, timers, timeouts, nextHandle, calls,
                         loopErrs, hist,
                    watchVars, greenifyVars >>

\* A callback run by the loop switches into a live greenlet.
GreenletResume(g) ==
    /\ current = hubGreenlet
    /\ g # current
    /\ ~dead[g]
    /\ current' = g
    /\ err' = NoError
    /\ UNCHANGED << dead, parent, hubGreenlet, timers, timeouts, nextHandle,
                    calls, loopErrs, hist,
                    watchVars, greenifyVars >>

\* The running greenlet finishes: it is dead and its parent runs.  The root
\* greenlet and the greenlet of the loop do not finish.
GreenletExit ==
    /\ current # hubGreenlet
    /\ parent[current] # {}
    /\ dead' = [dead EXCEPT ![current] = TRUE]
    /\ current' = LiveParent(current)
    /\ err' = NoError
    /\ UNCHANGED << parent, hubGreenlet, timers, timeouts, nextHandle, calls,
                    loopErrs, hist,
                    watchVars, greenifyVars >>

\* ------------------------------------------------------- add and remove
\* IOLoop.add_handler(fd, handler, events) as Tornado's loops do it.  For a
\* descriptor without a handler the handler is stored.  For a descriptor that
\* has one the call raises: the asyncio loop raises ValueError ("fd added
\* twice") and changes nothing; the poll loop has already stored the new
\* handler in its table when the poller refuses the descriptor (OSError), so
\* the handler is replaced and the events stay.  Both loops are outcomes.
AddHandler(H, fd, cb, ev) ==
    IF H[fd] = {}
    THEN { [ handlers |-> [H EXCEPT ![fd] = { [callback |-> cb, events |-> ev] }],
             err |-> NoError ] }
    ELSE { [ handlers |-> H, err |-> Raised("ValueError", 117) ],
           [ handlers |-> [H EXCEPT ![fd] =
                             { [callback |-> cb, events |-> r.events] : r \in @ }],
             err |-> Raised("OSError", 117) ] }

\* IOLoop.remove_handler(fd): the handler of fd is dropped; a descriptor
\* without one is no error.
RemoveHandler(H, fd) == [H EXCEPT ![fd] = {}]

\* TornadoHub.add(event, fd, callback).
Add(ev, fd, cb) ==
    /\ \E R \in AddHandler(handlers, fd, cb, ev) :
          /\ handlers' = R.handlers
          /\ err' = R.err
          /\ ret' = IF R.err = NoError THEN {fd} ELSE {}
    /\ UNCHANGED << taskVars, timerVars, greenifyVars >>

\* TornadoHub.remove(fd).
Remove(fd) ==
    /\ handlers' = RemoveHandler(handlers, fd)
    /\ err' = NoError
    /\ ret' = {}
    /\ UNCHANGED << taskVars, timerVars, greenifyVars >>

\* ---------------------------------------------------------------- greenify
\* Faulty variant of UpdateWrapper: nothing is copied, the closure keeps its
\* own __name__, __module__ and __doc__.
UpdateWrapperCopiesNothing(W, F, f) == [W EXCEPT !.wrapped = {f}]

\* functools.wraps(F)(W), F being object f: __module__, __name__ and __doc__
\* are assigned from F, W.__dict__ is updated with F.__dict__ (so an original
\* that F carries is copied), then __wrapped__ is set.
UpdateWrapper(W, F, f) ==
    [ W EXCEPT !.name = F.name,
               !.module = F.module,
               !.doc = F.doc,
               !.original = IF F.original # {} THEN F.original ELSE @,
               !.wrapped = {f} ]

\* greenify(o) on the objects O: the new objects and the returned object.
GreenifyOp(O, o) ==
    LET n == Len(O) + 1
    IN  IF O[o].kind = "handler"
        THEN [ objs |-> Append([O EXCEPT ![o].execute = {n}],
                          Obj("execute_wrapper", "_execute_wrapper",
                              "greentornado", {}, O[o].execute, {})),
               ret |-> {o} ]
        ELSE [ objs |-> Append(O,
                          [ UpdateWrapper(Obj("wrapper", "wrapper",
                                              "greentornado", {}, {o}, {}),
                                          O[o], o)
                            EXCEPT !.original = {o} ]),
               ret |-> {n} ]

Greenify(o) ==
    /\ o \in ObjIds
    /\ Len(objs) < MaxObjs
    /\ LET R == GreenifyOp(objs, o)
       IN  /\ objs' = R.objs
           /\ ret' = R.ret
    /\ err' = NoError
    /\ UNCHANGED << taskVars, timerVars, handlers, spawned, ran >>

\* The tasks waiting to be run and the bodies run so far.
RunState == [spawned |-> spawned, ran |-> ran]

\* eventlet.spawn_n(func, *args): a task that will run func(*args) is queued.
SpawnN(S, func, args) ==
    [S EXCEPT !.spawned = Append(@, [func |-> func, args |-> args])]

\* Faulty variant of CallOp: the closures call what they close over themselves
\* instead of handing it to spawn_n.
CallOpInline(S, f, args) ==
    LET g == IF objs[f].kind = "function" THEN f
             ELSE CHOOSE t \in objs[f].target : TRUE
    IN  IF objs[g].kind = "function"
        THEN [S EXCEPT !.ran = Append(@, [func |-> g, args |-> args])]
        ELSE SpawnN(S, CHOOSE t \in objs[g].target : TRUE, args)

\* f(*args) for a function object f: the body of a user function runs; the
\* closures wrapper and _execute_wrapper hand what they close over to spawn_n
\* with the arguments they were given.
CallOp(S, f, args) ==
    IF objs[f].kind = "function"
    THEN [S EXCEPT !.ran = Append(@, [func |-> f, args |-> args])]
    ELSE SpawnN(S, CHOOSE t \in objs[f].target : TRUE, args)

\* A caller calls the function object f with one argument.
CallFunction(f, a) ==
    /\ f \in ObjIds
    /\ objs[f].kind # "handler"
    /\ Len(spawned) < MaxSpawned
    /\ Len(ran) < MaxRan
    /\ LET R == CallOp(RunState, f, << a >>)
       IN  /\ spawned' = R.spawned
           /\ ran' = R.ran
    /\ err' = NoError
    /\ UNCHANGED << taskVars, timerVars, watchVars, objs >>

\* Tornado calls _execute of an instance of the handler class h; the instance
\* is named by its class.
Execute(h, a) ==
    /\ h \in ObjIds
    /\ objs[h].kind = "handler"
    /\ Len(spawned) < MaxSpawned
    /\ Len(ran) < MaxRan
    /\ LET R == CallOp(RunState, CHOOSE e \in objs[h].execute : TRUE, << h, a >>)
       IN  /\ spawned' = R.spawned
           /\ ran' = R.ran
    /\ err' = NoError
    /\ UNCHANGED << taskVars, timerVars, watchVars, objs >>

\* The hub runs the task that was spawned first.
RunSpawned ==
    /\ spawned # << >>
    /\ Len(ran) < MaxRan
    /\ LET R == CallOp([RunState EXCEPT !.spawned = Tail(@)],
                       Head(spawned).func, Head(spawned).args)
       IN  /\ spawned' = R.spawned
           /\ ran' = R.ran
    /\ err' = NoError
    /\ UNCHANGED << taskVars, timerVars, watchVars, objs >>

\* ------------------------------------------------------------------ Next
Next ==
    \/ \E cls \in Classes, s \in Seconds, f \in UserFuncs, a \in ArgValues :
          TimerInit(cls, s, f, a)
    \/ \E cls \in Classes, s \in Seconds, f \in UserFuncs, a \in ArgValues :
          CallLater(cls, s, f, a)
    \/ \E s \in Seconds, f \in UserFuncs, a \in ArgValues :
          ScheduleCallLocal(s, f, a)
    \/ \E s \in Seconds, f \in UserFuncs, a \in ArgValues :
          ScheduleCallGlobal(s, f, a)
    \/ \E t \in TimerIds : Schedule(t)
    \/ \E t \in TimerIds : Cancel(t)
    \/ \E to \in timeouts : LoopFire(to)
    \/ HubSwitch
    \/ \E g \in Tasks : GreenletResume(g)
    \/ GreenletExit

Spec == Init /\ [][Next]_vars

\* TornadoHub.add and TornadoHub.remove on the loop's handlers.
WatchNext ==
    \/ \E ev \in Events, fd \in Fds, cb \in WatchCallbacks : Add(ev, fd, cb)
    \/ \E fd \in Fds : Remove(fd)

WatchSpec == Init /\ [][WatchNext]_vars

\* greenify, calls of functions and of handlers, and the spawned tasks.
GreenifyNext ==
    \/ \E o \in ObjIds : Greenify(o)
    \/ \E f \in ObjIds, a \in ArgValues : CallFunction(f, a)
    \/ \E h \in ObjIds, a \in ArgValues : Execute(h, a)
    \/ RunSpawned

GreenifySpec == Init /\ [][GreenifyNext]_vars

\* ================================================================ claims
\* What the spec calls InvalidArgument: the exceptions validation raises.
InvalidArgument == { "TypeError", "ValueError", "AssertionError" }

\* The user function of timer t is a function (record), not a str.
HasCallback(t) == hist[t].func.inner = "record"

\* ---------------------------------------------------------------------
\* C1: for any Timer or LocalTimer and any sequence of schedule() calls,
\* cancel() calls and invocations by the loop, the stored callback is invoked
\* at most once.
C1_AtMostOnce ==
    \A t \in TimerIds : Len(calls[t]) <= 1

\* ---------------------------------------------------------------------
\* C2: after schedule_call_local(d, f) the function f is never executed once
\* the calling greenlet is dead, whereas a timer made by
\* schedule_call_global(d, f) that has neither fired nor been cancelled still
\* executes f, with its arguments, when the loop runs its timeout after the
\* calling greenlet died.
C2_LocalDiesGlobalFires ==
    [][ /\ \A t \in TimerIds :
              (hist[t].via = "local" /\ dead[hist[t].creator])
                 => calls'[t] = calls[t]
        /\ \A to \in timeouts :
              ( /\ hist[to.timer].via = "global"
                /\ dead[hist[to.timer].creator]
                /\ ~timers[to.timer].called
                /\ timers[to.timer].tpl # {}
                /\ LoopFire(to) )
                 => calls'[to.timer] =
                       Append(calls[to.timer],
                              [args |-> hist[to.timer].args, creatorDead |-> TRUE])
      ]_vars

\* A schedule_call_local timer whose greenlet died was run by the loop, not
\* cancelled, and f did not run.
C2_Witness ==
    \E t \in TimerIds :
        /\ hist[t].via = "local"
        /\ HasCallback(t)
        /\ dead[hist[t].creator]
        /\ hist[t].nfire >= 1
        /\ hist[t].ncancel = 0
        /\ calls[t] = << >>

\* ---------------------------------------------------------------------
\* C3: for a LocalTimer whose owning greenlet is dead, pending is false, the
\* callback is not invoked after the death, and once the loop has invoked the
\* timer fired (called) is true.
C3_DeadOwnerSuppressed ==
    \A t \in TimerIds :
        (timers[t].cls = "LocalTimer" /\ dead[hist[t].creator]) =>
            /\ ~Pending(timers[t])
            /\ \A i \in 1..Len(calls[t]) : ~calls[t][i].creatorDead
            /\ (hist[t].nfire >= 1 /\ Registered(t) = {}) => timers[t].called

\* ---------------------------------------------------------------------
\* C4: cancel() twice is cancel() once: from every reachable state and for
\* every timer, the timers and the loop's timeouts after cancel(); cancel()
\* are those after one cancel(), and neither call raises.
C4_CancelIdempotent ==
    \A t \in TimerIds :
        LET S1 == CancelOp(CancelState, t)
            S2 == CancelOp(S1, t)
        IN  /\ S1.err = NoError
            /\ S2 = S1

\* A timer that was cancelled twice: retracted, payload gone, no error.
C4_Witness ==
    \E t \in TimerIds :
        /\ hist[t].ncancel = 2
        /\ hist[t].nfire = 0
        /\ timers[t].called
        /\ timers[t].tpl = {}
        /\ Registered(t) = {}
        /\ err = NoError

\* ---------------------------------------------------------------------
\* C5: Timer(delaySeconds, ...) with delaySeconds < 0 fails with
\* InvalidArgument; with delaySeconds >= 0 it succeeds and leaves exactly one
\* timeout of the new timer on the loop.
C5_TimerRejectsNegative ==
    [][ \A s \in Seconds, f \in UserFuncs, a \in ArgValues :
          (TimerInit("Timer", s, f, a) /\ s.num) =>
             IF s.val < 0
             THEN /\ err'.exc \in InvalidArgument
                  /\ timers' = timers
                  /\ timeouts' = timeouts
             ELSE /\ err' = NoError
                  /\ Len(timers') = Len(timers) + 1
                  /\ Cardinality({ to \in timeouts' : to.timer = Len(timers') }) = 1
      ]_vars

\* ---------------------------------------------------------------------
\* C6: call_later(cls, seconds, func) with a func that is not callable, a
\* seconds that is no number or a negative seconds raises, and then no
\* instance of cls has been made and the loop has no new timeout: in every
\* reachable state, for every such call.
C6_CallLaterValidatesFirst ==
    \A cls \in Classes, s \in Seconds, f \in UserFuncs, a \in ArgValues :
        (f # "record" \/ ~s.num \/ s.val < 0) =>
            LET R == CallLaterOp(CtorState, "call_later", cls, s, Func(FALSE, f), a)
            IN  /\ R.err # NoError
                /\ R.timers = timers
                /\ R.timeouts = timeouts
                /\ R.nextHandle = nextHandle

\* A negative delay was refused before any timer existed.
C6_Witness ==
    /\ err = Raised("ValueError", 78)
    /\ timers = << >>
    /\ timeouts = {}
    /\ nextHandle = 1

\* ---------------------------------------------------------------------
\* C7: call_later raises AssertionError for a func that is not callable,
\* TypeError for a seconds that is no number, AssertionError for a negative
\* seconds, and otherwise returns an instance of cls.
C7_CallLaterExceptions ==
    [][ \A cls \in Classes, s \in Seconds, f \in UserFuncs, a \in ArgValues :
          CallLater(cls, s, f, a) =>
             IF f # "record" THEN err'.exc = "AssertionError"
             ELSE IF ~s.num THEN err'.exc = "TypeError"
             ELSE IF s.val < 0 THEN err'.exc = "AssertionError"
             ELSE /\ err' = NoError
                  /\ Len(timers') = Len(timers) + 1
                  /\ timers'[Len(timers')].cls = cls
      ]_vars

\* ---------------------------------------------------------------------
\* C8: schedule_call_local and schedule_call_global called with a func that
\* is not callable or with a negative delay raise at the call and leave no
\* timeout on the loop.
C8_HubValidatesAtCall ==
    [][ \A s \in Seconds, f \in UserFuncs, a \in ArgValues :
          ( /\ (f # "record" \/ (s.num /\ s.val < 0))
            /\ ScheduleCallLocal(s, f, a) \/ ScheduleCallGlobal(s, f, a) )
             => /\ err'.exc \in InvalidArgument
                /\ timers' = timers
                /\ timeouts' = timeouts
      ]_vars

\* ---------------------------------------------------------------------
\* C9: TornadoHub.switch() called by the greenlet of the loop raises
\* (RuntimeError, the spec's IllegalSwitch) and switches nothing: the running
\* greenlet and every parent are as before.
C9_SwitchFromMainRefused ==
    [][ (current = hubGreenlet /\ HubSwitch)
           => /\ err'.exc = "RuntimeError"
              /\ current' = current
              /\ parent' = parent
      ]_vars

\* switch() has just been refused in the greenlet of the loop.
C9_Witness ==
    /\ err.exc = "RuntimeError"
    /\ current = hubGreenlet

\* ---------------------------------------------------------------------
\* C10: when the loop runs a timeout of a Timer that has a callback and was
\* never cancelled, then afterwards the callback has been called exactly
\* once, with the stored arguments, and fired (called) is true.
C10_TimerFires ==
    [][ \A to \in timeouts :
          ( /\ timers[to.timer].cls = "Timer"
            /\ HasCallback(to.timer)
            /\ hist[to.timer].ncancel = 0
            /\ LoopFire(to) )
             => /\ timers'[to.timer].called
                /\ Len(calls'[to.timer]) = 1
                /\ calls'[to.timer][1].args = hist[to.timer].args
      ]_vars

\* A Timer that was never cancelled, was run by the loop and called record
\* once with its argument 42.
C10_Witness ==
    \E t \in TimerIds :
        /\ timers[t].cls = "Timer"
        /\ hist[t].ncancel = 0
        /\ hist[t].nfire >= 1
        /\ hist[t].args = 42
        /\ Len(calls[t]) = 1
        /\ calls[t][1].args = 42
        /\ timers[t].called

\* ---------------------------------------------------------------------
\* C11: in every reachable state and for every function f, greenify(f)
\* returns a new function object that is not f, has f's __name__, __module__
\* and __doc__, and whose attribute original is f.
C11_GreenifyImitates ==
    \A f \in ObjIds :
        objs[f].kind # "handler" =>
            LET R == GreenifyOp(objs, f)
            IN  \E w \in R.ret :
                   /\ R.ret = {w}
                   /\ w # f
                   /\ R.objs[w].kind = "wrapper"
                   /\ R.objs[w].name = objs[f].name
                   /\ R.objs[w].module = objs[f].module
                   /\ R.objs[w].doc = objs[f].doc
                   /\ R.objs[w].original = {f}

\* greenify has just returned a wrapper of a wrapper of job: it has job's
\* name and doc string, and its original is the first wrapper, not job.
C11_Witness ==
    \E w \in ObjIds, v \in ObjIds :
        /\ ret = {w}
        /\ objs[w].kind = "wrapper"
        /\ objs[w].original = {v}
        /\ objs[v].kind = "wrapper"
        /\ objs[v].original = {1}
        /\ objs[w].name = "job"
        /\ objs[w].doc = objs[1].doc
        /\ objs[w].doc # {}

\* ---------------------------------------------------------------------
\* C12: in every step (schedule(), cancel(), the loop calling the
\* timer) a timer whose fired flag (called) is true keeps it true.
C12_FiredMonotonic ==
    [][ \A t \in TimerIds : timers[t].called => timers'[t].called ]_vars

\* ---------------------------------------------------------------------
\* C13: cancel() on a timer that has not fired leaves fired
\* (called) true, the payload discarded and no timeout of that timer on the
\* loop; and once the payload is discarded the callback is never invoked.
C13_CancelRetracts ==
    [][ \A t \in TimerIds :
          /\ (~timers[t].called /\ Cancel(t)) =>
                /\ timers'[t].called
                /\ timers'[t].tpl = {}
                /\ \A to \in timeouts' : to.timer # t
          /\ timers[t].tpl = {} =>
                /\ timers'[t].tpl = {}
                /\ calls'[t] = calls[t]
      ]_vars

\* ---------------------------------------------------------------------
\* C14 as stated: cancel() on a timer whose fired flag (called) is true
\* changes nothing: the loop's timeouts and every attribute of the timer
\* (called, scheduled_time, tpl, greenlet) are as before.
C14_CancelAfterFireNoop ==
    [][ \A t \in TimerIds :
          (timers[t].called /\ Cancel(t)) =>
              /\ timeouts' = timeouts
              /\ timers' = timers
      ]_vars

\* C14 amended: in every reachable state, cancel() on a timer whose called is
\* true raises nothing, leaves the loop's timeouts as they are and leaves
\* called, scheduled_time and tpl of the timer as they are; the greenlet of a
\* LocalTimer is cleared by it, and no other timer is touched.
C14_CancelAfterFireKeeps ==
    \A t \in TimerIds :
        timers[t].called =>
            LET R == CancelOp(CancelState, t)
            IN  /\ R.err = NoError
                /\ R.timeouts = timeouts
                /\ R.timers = [timers EXCEPT ![t].greenlet =
                                 IF timers[t].cls = "LocalTimer" THEN {} ELSE @]

\* A LocalTimer that the loop ran (record was called) and that was cancelled
\* afterwards: the payload is still there, the greenlet is gone.
C14_Witness ==
    \E t \in TimerIds :
        /\ timers[t].cls = "LocalTimer"
        /\ hist[t].ncancel >= 1
        /\ Len(calls[t]) = 1
        /\ timers[t].called
        /\ timers[t].tpl # {}
        /\ timers[t].greenlet = {}

\* ---------------------------------------------------------------------
\* C15: when the loop calls a LocalTimer whose fired flag (called) is false,
\* called becomes true, and the callback is invoked only if the owning
\* greenlet is present and not dead.
C15_LocalTimerOwnerGuard ==
    [][ \A to \in timeouts :
          ( /\ timers[to.timer].cls = "LocalTimer"
            /\ ~timers[to.timer].called
            /\ LoopFire(to) )
             => /\ timers'[to.timer].called
                /\ calls'[to.timer] # calls[to.timer] =>
                      /\ timers[to.timer].greenlet # {}
                      /\ \A g \in timers[to.timer].greenlet : ~dead[g]
      ]_vars

\* ---------------------------------------------------------------------
\* C16: in every reachable state the pending property of a LocalTimer has the
\* truth value of: called is false, a greenlet is held, and that greenlet is
\* not dead; and pending is false after cancel(), whatever the state cancel()
\* is called in.
C16_PendingDerived ==
    \A t \in TimerIds :
        timers[t].cls = "LocalTimer" =>
            /\ Pending(timers[t]) <=>
                  ( /\ ~timers[t].called
                    /\ timers[t].greenlet # {}
                    /\ \A g \in timers[t].greenlet : ~dead[g] )
            /\ ~Pending(CancelOp(CancelState, t).timers[t])

\* A LocalTimer whose owner is alive and that was cancelled before the loop
\* ran it: it is not pending.
C16_Witness ==
    \E t \in TimerIds :
        /\ timers[t].cls = "LocalTimer"
        /\ hist[t].ncancel >= 1
        /\ hist[t].nfire = 0
        /\ hist[t].nsched = 1
        /\ ~dead[hist[t].creator]
        /\ Registered(t) = {}
        /\ ~Pending(timers[t])

C18_RaisingCallbackOnce ==
    [][ \A t \in TimerIds :
          /\ hist'[t].nraise > hist[t].nraise =>
                /\ timers'[t].called
                /\ "TypeError" \in loopErrs'
          /\ (hist[t].nraise >= 1 /\ timers[t].called) =>
                /\ hist'[t].nraise = hist[t].nraise
                /\ calls'[t] = calls[t]
                /\ timers'[t].called \/ Schedule(t)
      ]_vars

\* A LocalTimer whose callback raised when the loop first ran it: the loop
\* has invoked it again and cancel() was called since, the callback was
\* called that one time only, and called is true.
C18_Witness ==
    \E t \in TimerIds :
        /\ timers[t].cls = "LocalTimer"
        /\ hist[t].nraise = 1
        /\ hist[t].nfire >= 2
        /\ hist[t].ncancel >= 1
        /\ calls[t] = << >>
        /\ timers[t].called
        /\ "TypeError" \in loopErrs

\* ---------------------------------------------------------------------
\* C19: add(event, fd, callback) leaves callback registered with the loop for
\* fd and event and returns fd, raising nothing; after remove(fd) the loop
\* holds no handler for fd, whatever calls of add came before.
C19_AddRegistersRemoveClears ==
    [][ /\ \A ev \in Events, fd \in Fds, cb \in WatchCallbacks :
              Add(ev, fd, cb) =>
                 /\ handlers'[fd] = { [callback |-> cb, events |-> ev] }
                 /\ ret' = {fd}
                 /\ err' = NoError
        /\ \A fd \in Fds : Remove(fd) => handlers'[fd] = {}
      ]_vars

\* ---------------------------------------------------------------------
\* C20: a call of a function that greenify returned, and a call of _execute
\* on a handler class that greenify decorated, runs no body in that step and
\* adds exactly one task to the spawned tasks: the original callable (the
\* wrapper's original; the _execute the class had before) with the arguments
\* of the call.
C20_SpawnsNeverInline ==
    [][ \A f \in ObjIds, a \in ArgValues :
          /\ (objs[f].kind = "wrapper" /\ CallFunction(f, a)) =>
                /\ ran' = ran
                /\ \E o \in objs[f].original :
                      spawned' = Append(spawned, [func |-> o, args |-> << a >>])
          /\ ( /\ objs[f].kind = "handler"
               /\ \E e \in objs[f].execute : objs[e].kind = "execute_wrapper"
               /\ Execute(f, a) ) =>
                /\ ran' = ran
                /\ \E e \in objs[f].execute : \E o \in objs[e].target :
                      spawned' = Append(spawned, [func |-> o, args |-> << f, a >>])
      ]_vars

\* Two tasks wait to be run and no body has run: job(42), spawned by a call of
\* job's wrapper, and _execute(handler, 42), spawned by _execute of the
\* decorated handler class.
C20_Witness ==
    /\ ran = << >>
    /\ \E w \in ObjIds : objs[w].kind = "wrapper" /\ objs[w].original = {1}
    /\ \E h \in ObjIds, e \in ObjIds :
          /\ objs[h].kind = "handler"
          /\ objs[h].execute = {e}
          /\ objs[e].kind = "execute_wrapper"
          /\ \E i \in 1..Len(spawned) :
                spawned[i] = [func |-> 3, args |-> << h, 42 >>]
    /\ \E i \in 1..Len(spawned) : spawned[i] = [func |-> 1, args |-> << 42 >>]

====
